---- MODULE Spec2Model ----
(***************************************************************************)
(* A model of src/main.py, the AlphaFold3 results compiler: the filename   *)
(* parser extract_bait_prey, the upload loop that turns ZIP archives into  *)
(* session records, and the Generate Excel step that sorts, groups and     *)
(* writes one worksheet per Bait with three conditional formats.           *)
(*                                                                         *)
(* Text is modelled as a sequence of one-character strings, so that        *)
(* searching, slicing and truncating are computed character by character.  *)
(* A Python value that may be None is a sequence of length at most one:    *)
(* <<>> is None and <<x>> is the value x.                                  *)
(***************************************************************************)
EXTENDS Integers, Sequences, FiniteSets, TLC

VARIABLES
    processed_records,     \* st.session_state.processed_records (main.py:33)
    processed_file_names,  \* st.session_state.processed_file_names (main.py:35)
    pc,                    \* position of the script run: "idle" (between runs), "loop"
    clicked,               \* st.button("Generate Excel") returns True in this run
    ui,                    \* the widgets and messages the current run has rendered
    download,              \* the workbook handed to st.download_button: <<>> or <<book>>
    df,                    \* the local df of the last Generate after sort_values (main.py:142)
    writes,                \* the Baits of the to_excel calls of the last Generate, in call order
    last,                  \* history: what the latest upload-loop iteration did
    record_origin,         \* history: for each record, the archive name it came from
    presented,             \* history: archive names the upload loop has iterated over
    parse_in,              \* SpecParse: the identifier under test and its decomposition
    parse_out,             \* SpecParse: what extract_bait_prey returned
    cell_iptm,             \* SpecColour: the value of one cell of column C
    cell_format            \* SpecColour: the formats Excel shows on that cell

vars == <<processed_records, processed_file_names, pc, clicked, ui, download, df, writes,
          last, record_origin, presented, parse_in, parse_out, cell_iptm, cell_format>>

sessionVars == <<processed_records, processed_file_names, pc, clicked, ui, download,
                 df, writes, last, record_origin, presented>>
parseVars == <<parse_in, parse_out>>
colourVars == <<cell_iptm, cell_format>>

(***************************************************************************)
(* Text helpers.                                                           *)
(***************************************************************************)
\* The literal pieces of the pattern of main.py:23 and of the suffix test of main.py:85.
S_bait == <<"b", "a", "i", "t", "_">>
S_prey == <<"_", "p", "r", "e", "y", "_">>
S_summary4 == <<"_", "s", "u", "m", "m", "a", "r", "y", "_", "c", "o", "n", "f", "i", "d",
                "e", "n", "c", "e", "s", "_", "4">>
S_json == <<".", "j", "s", "o", "n">>
\* "summary_confidences_4.json", the argument of item.endswith (main.py:85).
S_selected == Tail(S_summary4) \o S_json
S_sep == <<":", ":">>
S_Unknown == <<"U", "n", "k", "n", "o", "w", "n">>

\* s[i:i+len(t)] == t
OccursAt(s, t, i) ==
    /\ i >= 1
    /\ i + Len(t) - 1 <= Len(s)
    /\ \A k \in 1..Len(t) : s[i + k - 1] = t[k]

\* t in s
Contains(s, t) == \E i \in 1..Len(s) : OccursAt(s, t, i)

\* s.endswith(t)
EndsWith(s, t) == Len(t) <= Len(s) /\ OccursAt(s, t, Len(s) - Len(t) + 1)

\* No character of s[i..j] is '/' or '\': the character class [^/\\] of main.py:23.
NoSeparator(s, i, j) == \A k \in i..j : s[k] # "/" /\ s[k] # "\\"

\* str.split("::")[-1]: Python scans left to right for non-overlapping "::" and the
\* last piece starts after the last separator found that way.
RECURSIVE LastPieceFrom(_, _, _)
LastPieceFrom(s, i, start) ==
    IF i > Len(s) THEN SubSeq(s, start, Len(s))
    ELSE IF OccursAt(s, S_sep, i) THEN LastPieceFrom(s, i + 2, i + 2)
    ELSE LastPieceFrom(s, i + 1, start)

SplitLast(s) == LastPieceFrom(s, 1, 1)

\* os.path.basename on POSIX: what follows the last '/'.
Basename(s) ==
    LET slashes == {i \in 1..Len(s) : s[i] = "/"}
    IN  IF slashes = {} THEN s
        ELSE SubSeq(s, (CHOOSE i \in slashes : \A k \in slashes : k <= i) + 1, Len(s))

(***************************************************************************)
(* extract_bait_prey (main.py:12-28).                                      *)
(***************************************************************************)
\* A match of  bait_([^/\\]+)_prey_([^/\\]+)(?=_summary_confidences_4)  in s:
\* "bait_" at i, group 1 = s[i+5..j-1], "_prey_" at j, group 2 = s[j+6..k-1], and the
\* lookahead literal at k.
IsMatch(s, i, j, k) ==
    /\ OccursAt(s, S_bait, i)
    /\ j >= i + 6
    /\ NoSeparator(s, i + 5, j - 1)
    /\ OccursAt(s, S_prey, j)
    /\ k >= j + 7
    /\ NoSeparator(s, j + 6, k - 1)
    /\ OccursAt(s, S_summary4, k)

\* Where a literal occurs in s.
Occurrences(s, t) == {i \in 1..Len(s) : OccursAt(s, t, i)}

MatchStarts(s) ==
    {i \in Occurrences(s, S_bait) :
        \E j \in Occurrences(s, S_prey) : \E k \in Occurrences(s, S_summary4) :
            IsMatch(s, i, j, k)}

MinOf(S) == CHOOSE x \in S : \A y \in S : x <= y
MaxOf(S) == CHOOSE x \in S : \A y \in S : y <= x

\* The "_prey_" positions that lead to a match starting at i.
Group1Ends(s, i) ==
    {j \in Occurrences(s, S_prey) : \E k \in Occurrences(s, S_summary4) : IsMatch(s, i, j, k)}

LazyGroup1End(s, i) == MinOf(Group1Ends(s, i))

\* Group 1 is greedy: the regex engine tries the longest group 1 first and backs off,
\* so of the "_prey_" positions that lead to a match it takes the rightmost.
Group1End(s, i) == MaxOf(Group1Ends(s, i))

\* Group 2 is greedy too: the rightmost lookahead position.
Group2End(s, i, j) == MaxOf({k \in Occurrences(s, S_summary4) : IsMatch(s, i, j, k)})

\* re.search: the leftmost start that matches; the groups, or (None, None).
ReSearch(s) ==
    IF MatchStarts(s) = {} THEN << <<>>, <<>> >>
    ELSE LET i == MinOf(MatchStarts(s))
             j == Group1End(s, i)
             k == Group2End(s, i, j)
         IN  << <<SubSeq(s, i + 5, j - 1)>>, <<SubSeq(s, j + 6, k - 1)>> >>

extract_bait_prey(file_identifier) ==
    LET filename == IF Contains(file_identifier, S_sep)
                    THEN Basename(SplitLast(file_identifier))
                    ELSE Basename(file_identifier)
    IN  ReSearch(filename)

(***************************************************************************)
(* JSON values.  A value is [t, v]: null, a number (in thousandths), a     *)
(* boolean or a list of small integers.  A JSON object is a set of         *)
(* <<key, value>> pairs.  Python's None and JSON's null are the same value.*)
(***************************************************************************)
JNull == [t |-> "null", v |-> <<>>]
JNum(n) == [t |-> "num", v |-> <<n>>]
JBool(b) == [t |-> "bool", v |-> <<IF b THEN 1 ELSE 0>>]
JList(l) == [t |-> "list", v |-> l]

\* dict.get(key): the value, or None when the key is missing (main.py:103-111).
Get(data, key) ==
    IF \E p \in data : p[1] = key THEN (CHOOSE p \in data : p[1] = key)[2] ELSE JNull

Digit(n) == <<"0", "1", "2", "3", "4", "5", "6", "7", "8", "9">>[n + 1]

RECURSIVE Decimal(_)
Decimal(n) == IF n < 10 THEN <<Digit(n)>> ELSE Decimal(n \div 10) \o <<Digit(n % 10)>>

RECURSIVE JoinItems(_)
JoinItems(l) ==
    IF l = <<>> THEN <<>>
    ELSE IF Len(l) = 1 THEN Decimal(l[1])
    ELSE Decimal(l[1]) \o <<",", " ">> \o JoinItems(Tail(l))

\* json.dumps of what dict.get returned (main.py:108-111): None becomes the text "null".
Dumps(x) ==
    CASE x.t = "null" -> <<"n", "u", "l", "l">>
      [] x.t = "bool" -> IF x.v[1] = 1 THEN <<"t", "r", "u", "e">> ELSE <<"f", "a", "l", "s", "e">>
      [] x.t = "num" -> Decimal(x.v[1])
      [] x.t = "list" -> <<"[">> \o JoinItems(x.v) \o <<"]">>

(***************************************************************************)
(* The three conditional formats of column C (main.py:162-179).  Values    *)
(* are thousandths, so 0.79 is 790.  A NaN is written as an empty cell,    *)
(* which Excel compares as 0: no rule holds for it.                        *)
(***************************************************************************)
HighThreshold == 790
BetweenMin == 600
BetweenMax == 790
LowMin == 400
LowMax == 600

CellNumber(c) == IF c.t = "num" THEN c.v[1] ELSE 0

\* criteria '>' with the value replaced by '>=': what an inclusive rule would do.
RuleHighInclusive(c) == CellNumber(c) >= HighThreshold

\* 'type': 'cell', 'criteria': '>', 'value': 0.79 -> light yellow (main.py:162-167)
RuleHigh(c) == CellNumber(c) > HighThreshold

\* 'criteria': 'between', 'minimum': 0.6, 'maximum': 0.79 -> light blue (main.py:168-174);
\* Excel's "between" includes both ends.
RuleBetween(c) == BetweenMin <= CellNumber(c) /\ CellNumber(c) <= BetweenMax

\* 'type': 'formula', '=AND(C2>0.4, C2<0.6)' -> light gray (main.py:175-179); the
\* relative reference C2 is the cell itself in every row of the range.
RuleLow(c) == CellNumber(c) > LowMin /\ CellNumber(c) < LowMax

\* The formats shown on a cell of the range: every rule that holds applies.
CellFormats(c) ==
    (IF RuleHigh(c) THEN {"light_yellow"} ELSE {})
    \cup (IF RuleBetween(c) THEN {"light_blue"} ELSE {})
    \cup (IF RuleLow(c) THEN {"light_gray"} ELSE {})

(***************************************************************************)
(* SpecColour: one cell of the iptm column, any value, formatted.          *)
(***************************************************************************)
MaxIptm == 1000

\* No upload-loop iteration has run yet.
NoIteration ==
    [file |-> <<>>, skipped |-> FALSE, failed |-> FALSE, logged |-> FALSE,
     escaped |-> FALSE, appended |-> 0, marked |-> FALSE]

SessionIdle ==
    /\ processed_records = <<>>
    /\ processed_file_names = <<>>
    /\ pc = "idle"
    /\ clicked = FALSE
    /\ ui = {}
    /\ download = <<>>
    /\ writes = <<>>
    /\ df = <<>>
    /\ last = NoIteration
    /\ record_origin = <<>>
    /\ presented = {}

ParseIdle == parse_in = <<>> /\ parse_out = <<>>
ColourIdle == cell_iptm = JNull /\ cell_format = <<>>

InitColour ==
    /\ SessionIdle
    /\ ParseIdle
    /\ cell_iptm \in {JNum(n) : n \in 0..MaxIptm} \cup {JNull}
    /\ cell_format = <<>>

ApplyConditionalFormats ==
    /\ cell_format = <<>>
    /\ cell_format' = <<CellFormats(cell_iptm)>>
    /\ UNCHANGED <<cell_iptm, sessionVars, parseVars>>

NextColour == ApplyConditionalFormats

SpecColour == InitColour /\ [][NextColour]_vars

(***************************************************************************)
(* SpecParse: extract_bait_prey on identifiers of the documented form      *)
(*   <lead><prefix>bait_<B>_prey_<P>_summary_confidences_4.json            *)
(* with <prefix>, <B> and <P> built from a few telling pieces.             *)
(***************************************************************************)
MaxAtoms == 3

Atoms == {<<"a">>, <<"_">>, S_bait, S_prey, Tail(S_prey), S_sep, S_summary4}
Leads == {<<"z", ":", ":">>, <<"d", "/">>}

RECURSIVE Flatten(_)
Flatten(ss) == IF ss = <<>> THEN <<>> ELSE Head(ss) \o Flatten(Tail(ss))

AtomSeqs(lo, hi) == UNION {[1..n -> Atoms] : n \in lo..hi}

Identifier(lead, prefix, B, P) ==
    lead \o prefix \o S_bait \o B \o S_prey \o P \o S_summary4 \o S_json

InitParse ==
    /\ SessionIdle
    /\ ColourIdle
    /\ \E lead \in Leads :
       \E pa \in AtomSeqs(0, MaxAtoms - 2) :
       \E ba \in AtomSeqs(1, MaxAtoms - 1 - Len(pa)) :
       \E qa \in AtomSeqs(1, MaxAtoms - Len(pa) - Len(ba)) :
          parse_in = [lead |-> lead, prefix |-> Flatten(pa), B |-> Flatten(ba),
                      P |-> Flatten(qa),
                      id |-> Identifier(lead, Flatten(pa), Flatten(ba), Flatten(qa))]
    /\ parse_out = <<>>

CallExtract ==
    /\ parse_out = <<>>
    /\ parse_out' = <<extract_bait_prey(parse_in.id)>>
    /\ UNCHANGED <<parse_in, sessionVars, colourVars>>

NextParse == CallExtract

SpecParse == InitParse /\ [][NextParse]_vars

(***************************************************************************)
(* Text order and case, as Python and the workbook library see them.       *)
(***************************************************************************)
\* The characters the model uses, in code-point order.
Ascii == <<"'", "*", ".", "/", "0", "1", "2", "3", "4", "5", "6", "7", "8", "9", ":", "?",
           "A", "B", "C", "D", "E", "F", "G", "H", "I", "J", "K", "L", "M", "N", "O", "P",
           "Q", "R", "S", "T", "U", "V", "W", "X", "Y", "Z", "[", "\\", "]", "_",
           "a", "b", "c", "d", "e", "f", "g", "h", "i", "j", "k", "l", "m", "n", "o", "p",
           "q", "r", "s", "t", "u", "v", "w", "x", "y", "z">>
UpperCase == SubSeq(Ascii, 17, 42)
LowerCase == SubSeq(Ascii, 47, 72)

Ord(c) == CHOOSE i \in 1..Len(Ascii) : Ascii[i] = c

\* a < b for Python str: the first differing character decides, a proper prefix is less.
StrLess(a, b) ==
    \E i \in 1..(Len(a) + 1) :
        /\ \A k \in 1..(i - 1) : k <= Len(b) /\ a[k] = b[k]
        /\ i <= Len(b)
        /\ (i > Len(a) \/ Ord(a[i]) < Ord(b[i]))

Lower(c) ==
    IF \E i \in 1..26 : UpperCase[i] = c
    THEN LowerCase[CHOOSE i \in 1..26 : UpperCase[i] = c]
    ELSE c

LowerStr(s) == [i \in 1..Len(s) |-> Lower(s[i])]

(***************************************************************************)
(* The uploaded archives.  An archive is [name, fault, entries]:           *)
(*   fault   "none", or the step of main.py:80-82 that raises for it:      *)
(*           "read" (file.read), "wrap" (io.BytesIO), "open" (ZipFile);    *)
(*   entries the members of z.namelist(), each [item, kind, data] with     *)
(*           kind "unreadable" (z.open raises), "notjson" (json.load       *)
(*           raises), "value" (JSON that is not an object) or "object".    *)
(***************************************************************************)
Rep(c, n) == [i \in 1..n |-> c]
Zip(c) == <<c, ".", "z", "i", "p">>

Item(prefix, bait, prey) == prefix \o S_bait \o bait \o S_prey \o prey \o S_summary4 \o S_json

Entry(item, kind, data) == [item |-> item, kind |-> kind, data |-> data]

\* Two Baits that agree on their first 31 characters.
LongBait1 == Rep("L", 31) \o <<"1">>
LongBait2 == Rep("L", 31) \o <<"2">>

ArchiveA ==
    [name |-> Zip("a"), fault |-> "none",
     entries |-> << Entry(<<"r", ".", "t", "x", "t">>, "object", {}),
                    Entry(Item(<<"d", "/", "f", "_">>, <<"X">>, <<"Y">>), "object",
                          {<<"iptm", JNum(900)>>, <<"ptm", JNum(500)>>,
                           <<"has_clash", JBool(FALSE)>>, <<"chain_iptm", JList(<<8, 12>>)>>,
                           <<"num_recycles", JNum(10)>>}) >>]
ArchiveB ==
    [name |-> Zip("b"), fault |-> "none",
     entries |-> << Entry(Item(<<>>, <<"X">>, <<"W">>), "unreadable", {}),
                    Entry(Item(<<>>, <<"X">>, <<"Z">>), "object", {<<"iptm", JNum(500)>>}) >>]
ArchiveC ==
    [name |-> Zip("c"), fault |-> "none",
     entries |-> << Entry(Item(<<>>, <<"A">>, <<"N">>), "notjson", {}),
                    Entry(Item(<<>>, <<"A">>, <<"P">>), "object", {<<"ptm", JNum(300)>>}),
                    Entry(Item(<<>>, <<"A">>, <<"Q">>), "value", {}),
                    Entry(Item(<<>>, <<"A">>, <<"R">>), "object", {<<"iptm", JNum(600)>>}) >>]
ArchiveD == [name |-> Zip("d"), fault |-> "read", entries |-> <<>>]
ArchiveE == [name |-> Zip("e"), fault |-> "open", entries |-> <<>>]
ArchiveF ==
    [name |-> Zip("f"), fault |-> "none",
     entries |-> << Entry(Item(<<>>, LongBait1, <<"P">>), "object", {<<"iptm", JNum(800)>>}),
                    Entry(Item(<<>>, LongBait2, <<"P">>), "object", {<<"iptm", JNum(790)>>}),
                    Entry(<<"x">> \o S_summary4 \o S_json, "object", {<<"iptm", JNum(500)>>}) >>]
ArchiveG == [name |-> Zip("g"), fault |-> "wrap", entries |-> <<>>]
ArchiveH ==
    [name |-> Zip("h"), fault |-> "none",
     entries |-> << Entry(Item(<<>>, <<"x">>, <<"Y">>), "object", {<<"iptm", JNum(410)>>}) >>]

Archives == {ArchiveA, ArchiveB, ArchiveC, ArchiveD, ArchiveE, ArchiveF, ArchiveG, ArchiveH}

(***************************************************************************)
(* The upload loop (main.py:74-128).                                       *)
(***************************************************************************)
\* The record of main.py:100-112.
BuildRecord(bait, prey, data) ==
    [Bait |-> bait, Prey |-> prey,
     iptm |-> Get(data, "iptm"),
     pair_iptm |-> Get(data, "ptm"),
     fraction_disordered |-> Get(data, "fraction_disordered"),
     hash_clash |-> Get(data, "has_clash"),
     ranking_score |-> Get(data, "ranking_score"),
     chain_iptm |-> Dumps(Get(data, "chain_iptm")),
     chain_ptm |-> Dumps(Get(data, "chain_ptm")),
     chain_pair_iptm |-> Dumps(Get(data, "chain_pair_iptm")),
     chain_pair_pae_min |-> Dumps(Get(data, "chain_pair_pae_min"))]

\* A list that put the new record first.
PrependRecord(records, record) == <<record>> \o records

\* st.session_state.processed_records.append(record) (main.py:113)
AppendRecord(records, record) == Append(records, record)

\* file_identifier = f"{file.name}::{os.path.basename(item)}" (main.py:86)
FileIdentifier(file, i) == file.name \o S_sep \o Basename(file.entries[i].item)

\* extract_bait_prey on every identifier the archives give rise to, computed once.
ExtractTable ==
    [id \in UNION {{FileIdentifier(f, i) : i \in 1..Len(f.entries)} : f \in Archives}
        |-> extract_bait_prey(id)]

\* bait, prey of main.py:95-98: the parsed pair, or "Unknown" twice.
BaitPrey(file_identifier) ==
    LET bp == ExtractTable[file_identifier]
    IN  IF bp[1] = <<>> \/ bp[2] = <<>> THEN <<S_Unknown, S_Unknown>>
        ELSE <<bp[1][1], bp[2][1]>>

\* for item in z.namelist() (main.py:83-113), from entry i on: the records afterwards,
\* and whether an exception left the loop.  json.load failing (or z.open) is caught at
\* main.py:91 and the loop continues; data.get on a value that is no dict raises
\* AttributeError at main.py:103, outside that inner try.
RECURSIVE ProcessEntries(_, _, _)
ProcessEntries(file, i, records) ==
    IF i > Len(file.entries) THEN [records |-> records, raised |-> FALSE]
    ELSE LET e == file.entries[i]
             file_identifier == FileIdentifier(file, i)
             bp == BaitPrey(file_identifier)
         IN  IF ~EndsWith(e.item, S_selected) THEN ProcessEntries(file, i + 1, records)
             ELSE IF e.kind \in {"unreadable", "notjson"}
                  THEN ProcessEntries(file, i + 1, records)
             ELSE IF e.kind = "value" THEN [records |-> records, raised |-> TRUE]
             ELSE ProcessEntries(file, i + 1,
                                 AppendRecord(records, BuildRecord(bp[1], bp[2], e.data)))

\* The script variables that main.py:80-81 have bound when the finally clause runs.
BoundAtFinally(file) ==
    CASE file.fault = "read" -> {}
      [] file.fault = "wrap" -> {"file_content"}
      [] OTHER -> {"file_content", "zip_bytes"}

\* del file_content, zip_bytes (main.py:126) raises NameError for an unbound name; the
\* names are unbound at the start of every iteration (the previous one deleted them).
DelRaises(file) == ~({"file_content", "zip_bytes"} \subseteq BoundAtFinally(file))

\* The try block of main.py:78-115 for one file.
TryBlock(file, records) ==
    IF file.fault # "none" THEN [records |-> records, raised |-> TRUE]
    ELSE ProcessEntries(file, 1, records)

Names(seq) == {seq[i] : i \in 1..Len(seq)}

(***************************************************************************)
(* Generate Excel (main.py:137-187).                                       *)
(***************************************************************************)
IsNaN(r) == r.iptm.t # "num"
Key(r) == r.iptm.v[1]

\* The orders of the rows S (indices) that are descending by iptm; equal values come in
\* any order (sort_values uses the default, unstable, quicksort).
RECURSIVE DescOrders(_, _)
DescOrders(rows, S) ==
    IF S = {} THEN {<<>>}
    ELSE LET tops == {i \in S : \A k \in S : Key(rows[k]) <= Key(rows[i])}
         IN  UNION {{<<i>> \o t : t \in DescOrders(rows, S \ {i})} : i \in tops}

\* Indices of the NaN rows from row i on, in row order.
RECURSIVE NaNIndices(_, _)
NaNIndices(rows, i) ==
    IF i > Len(rows) THEN <<>>
    ELSE (IF IsNaN(rows[i]) THEN <<i>> ELSE <<>>) \o NaNIndices(rows, i + 1)

\* df.sort_values(by="iptm", ascending=False) (main.py:142): the possible results.
\* na_position defaults to 'last', and the NaN rows keep their order.
SortValues(rows) ==
    LET nans == NaNIndices(rows, 1)
        nums == {i \in 1..Len(rows) : ~IsNaN(rows[i])}
    IN  {[k \in 1..Len(rows) |-> rows[(o \o nans)[k]]] : o \in DescOrders(rows, nums)}

RECURSIVE Ascending(_)
Ascending(S) ==
    IF S = {} THEN <<>>
    ELSE LET m == CHOOSE x \in S : \A y \in S \ {x} : StrLess(x, y)
         IN  <<m>> \o Ascending(S \ {m})

\* The Baits of the frame in the order of their first row.
RECURSIVE FirstSeenKeys(_)
FirstSeenKeys(frame) ==
    IF frame = <<>> THEN <<>>
    ELSE LET rest == FirstSeenKeys(SubSeq(frame, 1, Len(frame) - 1))
             b == frame[Len(frame)].Bait
         IN  IF b \in Names(rest) THEN rest ELSE Append(rest, b)

\* The keys df.groupby("Bait") iterates over (main.py:153): groupby sorts the group
\* keys by default (sort=True).
GroupKeys(frame) == Ascending({frame[i].Bait : i \in 1..Len(frame)})

\* group_df: the rows of one Bait, in the order of the sorted frame.
GroupRows(frame, bait) == SelectSeq(frame, LAMBDA r : r.Bait = bait)

MaxSheetName == 31

\* sheet_name = str(bait)[:31] (main.py:155)
SheetName(bait) == SubSeq(bait, 1, IF Len(bait) < MaxSheetName THEN Len(bait) ELSE MaxSheetName)

SheetIndex(book, name) == {i \in 1..Len(book) : book[i].name = name}

\* The workbook library refuses a new worksheet whose name holds one of []:*?/\ ,
\* starts or ends with an apostrophe, or equals an existing name up to case.
SheetNameRejected(book, name) ==
    \/ \E i \in 1..Len(name) : name[i] \in {"[", "]", ":", "*", "?", "/", "\\"}
    \/ name[1] = "'" \/ name[Len(name)] = "'"
    \/ \E i \in 1..Len(book) : LowerStr(book[i].name) = LowerStr(name)

\* group_df.to_excel(writer, sheet_name=sheet_name, index=False) and the three
\* conditional_format calls on C2:C{num_rows} (main.py:156-179).  to_excel looks the
\* worksheet up by name and adds one only when there is none: a second group with the
\* same sheet name is written, cell by cell, over the first group's rows.
WriteSheet(book, name, group) ==
    IF SheetIndex(book, name) # {}
    THEN LET i == CHOOSE k \in SheetIndex(book, name) : TRUE
             old == book[i]
         IN  [book EXCEPT ![i] =
                 [name |-> name,
                  rows |-> group \o SubSeq(old.rows, Len(group) + 1, Len(old.rows)),
                  formatted |-> IF old.formatted < Len(group) THEN Len(group)
                                ELSE old.formatted]]
    ELSE Append(book, [name |-> name, rows |-> group, formatted |-> Len(group)])

\* for bait, group_df in df.groupby("Bait") (main.py:153-179), from the keys left: the
\* workbook, the Baits written, and whether the library raised.
RECURSIVE WriteGroups(_, _, _, _)
WriteGroups(keys, frame, book, written) ==
    IF keys = <<>> THEN [book |-> book, writes |-> written, raised |-> FALSE]
    ELSE LET bait == Head(keys)
             name == SheetName(bait)
         IN  IF SheetIndex(book, name) = {} /\ SheetNameRejected(book, name)
             THEN [book |-> book, writes |-> Append(written, bait), raised |-> TRUE]
             ELSE WriteGroups(Tail(keys), frame,
                              WriteSheet(book, name, GroupRows(frame, bait)),
                              Append(written, bait))

\* The session's record list after df = pd.DataFrame(processed_records) and
\* df = df.sort_values(...) (main.py:140-142): both build new objects.
RecordsAfterCompile(records, frame) == records

(***************************************************************************)
(* The session: script runs of main.py.                                    *)
(***************************************************************************)
MaxRecords == 4

Init == SessionIdle /\ ParseIdle /\ ColourIdle

\* A rerun starts: an upload changed the file_uploader, or the user clicked the
\* Generate Excel button that the previous run rendered.  The page is cleared and the
\* title is drawn (main.py:38).
StartRun(click) ==
    /\ pc = "idle"
    /\ click => "generate_button" \in ui
    /\ pc' = "loop"
    /\ clicked' = click
    /\ ui' = {"title"}
    /\ download' = <<>>
    /\ df' = <<>>
    /\ writes' = <<>>
    /\ UNCHANGED <<processed_records, processed_file_names, last, record_origin, presented,
                   parseVars, colourVars>>

\* One iteration of for file in uploaded_files (main.py:74-128).
ProcessFile(file) ==
    /\ pc = "loop"
    /\ Len(processed_records) < MaxRecords
    /\ presented' = presented \cup {file.name}
    /\ IF file.name \in Names(processed_file_names)
       THEN /\ last' = [NoIteration EXCEPT !.file = file.name, !.skipped = TRUE]
            /\ UNCHANGED <<processed_records, processed_file_names, record_origin, pc, ui,
                           clicked>>
       ELSE LET t == TryBlock(file, processed_records)
                n == Len(t.records) - Len(processed_records)
            IN  /\ processed_records' = t.records
                /\ record_origin' = record_origin \o Rep(file.name, n)
                /\ processed_file_names' =
                       IF t.raised THEN processed_file_names
                       ELSE Append(processed_file_names, file.name)
                /\ last' = [file |-> file.name, skipped |-> FALSE, failed |-> t.raised,
                            logged |-> t.raised, escaped |-> DelRaises(file),
                            appended |-> n, marked |-> ~t.raised]
                /\ IF DelRaises(file)
                   THEN pc' = "idle" /\ ui' = ui \cup {"exception"} /\ clicked' = FALSE
                   ELSE UNCHANGED <<pc, ui, clicked>>
    /\ UNCHANGED <<download, df, writes, parseVars, colourVars>>

\* What the page shows when the script has run past main.py:138: the title
\* (main.py:38), the processed files (main.py:131-134), the button (main.py:137-138).
Rendered ==
    {"title"}
    \cup (IF processed_file_names # <<>> THEN {"processed_files"} ELSE {})
    \cup (IF processed_records # <<>> THEN {"generate_button"} ELSE {})

\* The rest of the script when the button was not clicked (main.py:130-138).
Render ==
    /\ pc = "loop"
    /\ ~(clicked /\ processed_records # <<>>)
    /\ pc' = "idle"
    /\ clicked' = FALSE
    /\ ui' = Rendered
    /\ UNCHANGED <<processed_records, processed_file_names, download, df, writes, last,
                   record_origin, presented, parseVars, colourVars>>

\* The rest of the script when it was (main.py:130-187).
GenerateExcel ==
    /\ pc = "loop"
    /\ clicked /\ processed_records # <<>>
    /\ \E frame \in SortValues(processed_records) :
         LET w == WriteGroups(GroupKeys(frame), frame, <<>>, <<>>)
         IN  /\ df' = frame
             /\ writes' = w.writes
             /\ download' = IF w.raised THEN <<>> ELSE <<w.book>>
             /\ ui' = Rendered \cup (IF w.raised THEN {"exception"} ELSE {"download_button"})
             /\ processed_records' = RecordsAfterCompile(processed_records, frame)
    /\ pc' = "idle"
    /\ clicked' = FALSE
    /\ UNCHANGED <<processed_file_names, last, record_origin, presented, parseVars,
                   colourVars>>

Next ==
    \/ \E click \in BOOLEAN : StartRun(click)
    \/ \E file \in Archives : ProcessFile(file)
    \/ Render
    \/ GenerateExcel

Spec == Init /\ [][Next]_vars

(***************************************************************************)
(* Properties.                                                             *)
(***************************************************************************)
ArchiveNamed(name) == CHOOSE f \in Archives : f.name = name
CountFrom(name) == Cardinality({i \in 1..Len(record_origin) : record_origin[i] = name})
\* What one presentation of the archive to a fresh session contributes.
OnceCount(name) == Len(TryBlock(ArchiveNamed(name), <<>>).records)

\* C1: idempotence of archive processing: however often an archive name has been
\* presented to the upload loop, the records it has contributed are as many as one
\* presentation contributes.
C1_Idempotent == \A name \in presented : CountFrom(name) = OnceCount(name)

ParsesAsJson(e) == e.kind \in {"value", "object"}
SelectedParsing(file) ==
    {i \in 1..Len(file.entries) :
        EndsWith(file.entries[i].item, S_selected) /\ ParsesAsJson(file.entries[i])}

\* C2: a selected entry is rejected only when it does not parse as JSON: an iteration
\* over a readable archive appends one record for every selected entry that parses,
\* whatever its shape, and adds the archive name to processed_file_names.
C2_ParsedEntriesAccepted ==
    (last.file # <<>> /\ ~last.skipped /\ ArchiveNamed(last.file).fault = "none")
        => /\ last.appended = Cardinality(SelectedParsing(ArchiveNamed(last.file)))
           /\ last.marked

\* C3: a failure in handling one archive is logged and no exception escapes the upload
\* loop, so the loop goes on to the later archives of the batch.
C3_FailuresNonFatal == last.failed => (last.logged /\ ~last.escaped)

\* C4 as claimed: the boundary colours of the iptm column with 0.79 getting colour A.
C4_BoundaryAsClaimed ==
    cell_format # <<>> =>
        /\ cell_iptm = JNum(790) => cell_format[1] = {"light_yellow"}
        /\ cell_iptm = JNum(800) => cell_format[1] = {"light_yellow"}
        /\ cell_iptm = JNum(600) => cell_format[1] = {"light_blue"}
        /\ cell_iptm = JNum(400) => cell_format[1] = {}
        /\ cell_iptm = JNum(410) => cell_format[1] = {"light_gray"}
        /\ cell_iptm = JNum(599) => cell_format[1] = {"light_gray"}

\* C4: the boundary colours of the iptm column: 0.79 gets colour B (light blue) and not
\* colour A, 0.80 gets A (light yellow), 0.60 gets B, 0.40 gets none, 0.41 and 0.599
\* get C (light gray).
C4_Boundary ==
    cell_format # <<>> =>
        /\ cell_iptm = JNum(790) => cell_format[1] = {"light_blue"}
        /\ cell_iptm = JNum(800) => cell_format[1] = {"light_yellow"}
        /\ cell_iptm = JNum(600) => cell_format[1] = {"light_blue"}
        /\ cell_iptm = JNum(400) => cell_format[1] = {}
        /\ cell_iptm = JNum(410) => cell_format[1] = {"light_gray"}
        /\ cell_iptm = JNum(599) => cell_format[1] = {"light_gray"}

C4_Witness == cell_iptm = JNum(790) /\ cell_format = << {"light_blue"} >>

\* C5 as claimed: for every identifier of the form
\* <prefix>bait_<B>_prey_<P>_summary_confidences_4.json, extract_bait_prey returns (B, P).
C5_AsClaimed ==
    parse_out # <<>> => parse_out[1] = << <<parse_in.B>>, <<parse_in.P>> >>

\* The decompositions the parser recovers: no "bait_" before the form's own, no
\* "_prey_" after the form's own that still has a character of <P> behind it, no "::"
\* in <B> or <P>.
C5_Unambiguous ==
    /\ ~Contains(parse_in.lead \o parse_in.prefix, S_bait)
    /\ \A q \in Occurrences(S_prey \o parse_in.P, S_prey) :
          q = 1 \/ q + Len(S_prey) - 1 = Len(S_prey \o parse_in.P)
    /\ ~Contains(parse_in.B, S_sep)
    /\ ~Contains(parse_in.P, S_sep)

\* C5: for every identifier of the form
\* <prefix>bait_<B>_prey_<P>_summary_confidences_4.json in which <prefix> holds no
\* "bait_", "_prey_<P>" holds "_prey_" only at its start or at its very end, and neither
\* <B> nor <P> holds "::", extract_bait_prey returns (B, P); <B> may hold "bait_" and
\* "_prey_".
C5_ParsesUnambiguous ==
    (parse_out # <<>> /\ C5_Unambiguous)
        => parse_out[1] = << <<parse_in.B>>, <<parse_in.P>> >>

C5_Witness ==
    /\ parse_out # <<>>
    /\ C5_Unambiguous
    /\ Contains(parse_in.B, S_prey)
    /\ parse_out[1] = << <<parse_in.B>>, <<parse_in.P>> >>

BaitsOf(frame) == {frame[i].Bait : i \in 1..Len(frame)}

\* C6 as claimed: the sheets are emitted in first-seen order of the Baits in the records
\* sorted by iptm descending.
C6_FirstSeenOrder == download # <<>> => writes = FirstSeenKeys(df)

\* C6: Generate Excel writes one sheet per Bait group in ascending order of the Bait
\* values: the writes are strictly ascending, each is a Bait of the frame, no Bait below
\* a written one is left out, and all are written unless the library raised.
C6_AscendingOrder ==
    df # <<>> =>
        /\ \A i, j \in 1..Len(writes) : i < j => StrLess(writes[i], writes[j])
        /\ Names(writes) \subseteq BaitsOf(df)
        /\ \A b \in BaitsOf(df) :
              (\E i \in 1..Len(writes) : StrLess(b, writes[i])) => b \in Names(writes)
        /\ download # <<>> => Names(writes) = BaitsOf(df)

C6_Witness ==
    /\ download # <<>>
    /\ Len(writes) >= 2
    /\ writes # FirstSeenKeys(df)

CountIn(seq, x) == Cardinality({i \in 1..Len(seq) : seq[i] = x})
SameRows(a, b) == Len(a) = Len(b) /\ \A i \in 1..Len(a) : CountIn(a, a[i]) = CountIn(b, a[i])
\* iptm descending, every row without iptm after every row with one.
DescendingNaNLast(rows) ==
    \A i, j \in 1..Len(rows) :
        i < j => \/ IsNaN(rows[j])
                 \/ (~IsNaN(rows[i]) /\ Key(rows[i]) >= Key(rows[j]))

\* C7: in the produced workbook the rows of each Bait's sheet are exactly the records
\* with that Bait, by iptm descending with the records without iptm last.
C7_RowsPerBaitSorted ==
    download # <<>> =>
        \A b \in BaitsOf(processed_records) :
            \E i \in 1..Len(download[1]) :
                /\ download[1][i].name = SheetName(b)
                /\ SameRows(download[1][i].rows, GroupRows(processed_records, b))
                /\ DescendingNaNLast(download[1][i].rows)

\* C8: a run that reaches the end of the script with no accumulated records builds no
\* spreadsheet, offers no download and shows the user a "nothing to export" signal.
C8_EmptyResultSignalled ==
    (pc = "idle" /\ "title" \in ui /\ "exception" \notin ui /\ processed_records = <<>>)
        => /\ download = <<>>
           /\ "download_button" \notin ui
           /\ "nothing_to_export" \in ui

\* C9: the produced workbook has as many sheets as there are distinct Baits, and every
\* sheet holds rows of one Bait only.
C9_OneSheetPerBait ==
    download # <<>> =>
        /\ Len(download[1]) = Cardinality(BaitsOf(processed_records))
        /\ \A i \in 1..Len(download[1]) :
              \A j, k \in 1..Len(download[1][i].rows) :
                  download[1][i].rows[j].Bait = download[1][i].rows[k].Bait

IsPrefix(a, b) == Len(a) <= Len(b) /\ SubSeq(b, 1, Len(a)) = a
GenerateStep == pc = "loop" /\ clicked /\ pc' = "idle" /\ "generate_button" \in ui'

\* C10: accumulation is additive: every step leaves the earlier processed_records as a
\* prefix of the later list, and the Generate Excel step changes neither
\* processed_records nor processed_file_names.
C10_Additive ==
    [][/\ IsPrefix(processed_records, processed_records')
       /\ GenerateStep => UNCHANGED <<processed_records, processed_file_names>>]_vars

C10_Witness ==
    /\ download # <<>>
    /\ Len(processed_records) >= 2
    /\ df # processed_records

====
